---------------------------- MODULE Spec2Model ----------------------------
(***************************************************************************)
(* Events API: FastAPI request handlers (main.py), pydantic request models *)
(* (models.py), exception handlers (exceptions.py) and the DynamoDB        *)
(* gateway (database.py).                                                  *)
(*                                                                         *)
(* Each in-flight request is a process.  A handler runs its local code     *)
(* (validation, uuid, clock read, expression building) in the step that    *)
(* starts it and every request to the table (put_item, get_item,           *)
(* update_item, delete_item, one scan page) is one atomic step, so that    *)
(* requests of different processes interleave between the clock read and   *)
(* the table request exactly as they can in the service.                   *)
(*                                                                         *)
(* The table is the external collaborator: it is modelled by what its API  *)
(* promises (atomic conditional writes, consistent reads, paged scans).    *)
(* A request the backend fails (ClientError, BotoCoreError, anything else) *)
(* is modelled as not applied.                                             *)
(***************************************************************************)
EXTENDS Integers, Sequences, FiniteSets, TLC

VARIABLES
    store,      \* the table: eventId -> item, or NoItem
    now,        \* the wall clock read by datetime.utcnow()
    proc,       \* per process: the request in flight and its outcome
    nreq,       \* number of requests started so far
    hist        \* history: per eventId, its last successful create or delete,
                \* whether an update succeeded since, and the record the last
                \* successful create or update returned

vars == <<store, now, proc, nreq, hist>>

-----------------------------------------------------------------------------
(* Bounds of the model *)

\* requests started in one behaviour
MaxRequests == 3
\* last instant of the clock
MaxClock == 1
\* largest limit passed to list
MaxLimit == 3

(* Program constants *)

MAX_TITLE_LENGTH == 200
MAX_DESCRIPTION_LENGTH == 1000
MAX_LOCATION_LENGTH == 200
MAX_ORGANIZER_LENGTH == 100
MIN_CAPACITY == 1
MAX_CAPACITY == 100000
HTTP_200_OK == 200
HTTP_201_CREATED == 201
HTTP_204_NO_CONTENT == 204
HTTP_404_NOT_FOUND == 404
HTTP_422_UNPROCESSABLE_ENTITY == 422
HTTP_500_INTERNAL_SERVER_ERROR == 500
\* Query(None, ge=1, le=1000) of the limit parameter
LIMIT_GE == 1
LIMIT_LE == 1000
\* list_events(limit=1) of the health check
HEALTH_LIMIT == 1

-----------------------------------------------------------------------------
(* Values *)

Procs == {"p1", "p2", "p3"}

\* Python's None
None == "None"

\* an absent item: get_item's response without 'Item', which get_event
\* returns as None
NoItem == [absent |-> TRUE]

\* limit=None; the gateway tests "if limit", so 0 behaves as None does
NoLimit == 0

\* the keys the table can hold, in the order a scan visits them
ScanOrder == <<"e3", "e1", "e4", "e2">>
AllIds == {ScanOrder[i] : i \in 1..Len(ScanOrder)}

\* the ids requests carry, and the values uuid4 can draw
EventIds == {"e1", "e2"}
UuidSpace == {"e1", "e2"}

\* ids that are empty or whitespace only
BlankIds == {"", " "}

\* str.strip() on an id
StripId(id) == IF id \in BlankIds THEN "" ELSE id

(* Strings are run-length encoded: a sequence of runs [ch, n], so that the *)
(* length limits (200, 1000, 100) are reachable.                           *)
Run(c, k) == <<[ch |-> c, n |-> k]>>

RECURSIVE StrLen(_)
StrLen(s) == IF s = <<>> THEN 0 ELSE s[1].n + StrLen(Tail(s))

RECURSIVE LStrip(_)
LStrip(s) == IF s = <<>> THEN s
             ELSE IF s[1].ch = " " THEN LStrip(Tail(s)) ELSE s

RECURSIVE RStrip(_)
RStrip(s) == IF s = <<>> THEN s
             ELSE IF s[Len(s)].ch = " " THEN RStrip(SubSeq(s, 1, Len(s) - 1)) ELSE s

\* str.strip()
Strip(s) == RStrip(LStrip(s))

\* dict merge {**f, **g}
Override(f, g) ==
    [k \in (DOMAIN f) \cup (DOMAIN g) |-> IF k \in DOMAIN g THEN g[k] ELSE f[k]]

\* dict without key k
Without(f, k) == [x \in (DOMAIN f) \ {k} |-> f[x]]

EmptyDict == [k \in {} |-> None]

\* datetime.isoformat() + 'Z' of an instant, and the instant of a timestamp
IsoZ(t) == <<t, "Z">>
Instant(ts) == ts[1]

Min(a, b) == IF a < b THEN a ELSE b

-----------------------------------------------------------------------------
(* Request bodies.  A JSON body or a patch dict is [vals, nulls]: vals maps *)
(* the keys that carry a value to it, nulls is the set of keys that are     *)
(* present with null / None.  A key in neither is absent (unset).           *)

Body(v, n) == [vals |-> v, nulls |-> n]
Keys(b) == (DOMAIN b.vals) \cup b.nulls
Present(b, k) == k \in DOMAIN b.vals

StringFields == {"title", "description", "location", "organizer"}
UpdateFields == {"title", "description", "date", "location", "capacity",
                 "organizer", "status"}
CreateFields == UpdateFields \cup {"eventId"}

\* Field(max_length=...) of EventBase / EventUpdate
MaxLength(k) ==
    CASE k = "title" -> MAX_TITLE_LENGTH
      [] k = "description" -> MAX_DESCRIPTION_LENGTH
      [] k = "location" -> MAX_LOCATION_LENGTH
      [] k = "organizer" -> MAX_ORGANIZER_LENGTH

\* Literal[...] of the status field
StatusLiteral == {"draft", "published", "active", "cancelled", "completed"}

\* what datetime.fromisoformat(v.replace('Z', '+00:00')) parses, among the
\* date strings of the model, and what strptime(v, '%Y-%m-%d') parses
DateStrings == {"2024-06-15", "2024-06-15T09:00:00Z", "2024-06-15T09:00:00+02:00",
                "15-06-2024", "not-a-date"}
FromIsoFormatOk(v) ==
    v \in {"2024-06-15", "2024-06-15T09:00:00Z", "2024-06-15T09:00:00+02:00"}
StrptimeYmdOk(v) == v \in {"2024-06-15"}

\* min_length=1, max_length=N, checked on the raw value before the validators
LengthOk(k, v) == StrLen(v) >= 1 /\ StrLen(v) <= MaxLength(k)

\* validate_not_empty: raises on '' or whitespace only; returns v.strip()
validate_not_empty_ok(v) == ~(v = <<>> \/ Strip(v) = <<>>)
\* a validator that returns the value as given
validate_not_empty_as_given(v) == v
validate_not_empty(v) == Strip(v)

\* validate_date_format: raises unless one of the two parses succeeds
validate_date_format_ok(v) == FromIsoFormatOk(v) \/ StrptimeYmdOk(v)

\* a capacity that is not checked
capacity_unchecked(v) == TRUE

\* gt=0, le=100000 and validate_capacity_range
validate_capacity_range_ok(v) ==
    /\ v > 0 /\ v <= MAX_CAPACITY
    /\ ~(v < MIN_CAPACITY) /\ ~(v > MAX_CAPACITY)

\* validate_event_id: None passes; '' or whitespace only raises; else v.strip()
validate_event_id_ok(v) ==
    v = None \/ (v # "" /\ StripId(v) # "")
validate_event_id(v) == IF v = None THEN None ELSE StripId(v)

\* one field of a body that carries a value passes its constraints and validators
FieldOk(k, v) ==
    CASE k \in StringFields -> LengthOk(k, v) /\ validate_not_empty_ok(v)
      [] k = "date" -> validate_date_format_ok(v)
      [] k = "capacity" -> validate_capacity_range_ok(v)
      [] k = "status" -> v \in StatusLiteral
      [] k = "eventId" -> validate_event_id_ok(v)

\* the validated value of a field
FieldValue(k, v) ==
    CASE k \in StringFields -> validate_not_empty(v)
      [] k = "eventId" -> validate_event_id(v)
      [] OTHER -> v

\* EventCreate(**body) validates: every EventBase field is required and not
\* null, eventId is optional; keys the model does not declare are ignored
EventCreateOk(b) ==
    /\ \A k \in UpdateFields : Present(b, k) /\ FieldOk(k, b.vals[k])
    /\ Present(b, "eventId") => FieldOk("eventId", b.vals["eventId"])

\* event.model_dump(): every declared field, eventId None when not given
EventCreateDump(b) ==
    [k \in CreateFields |->
        IF Present(b, k) THEN FieldValue(k, b.vals[k]) ELSE None]

\* EventUpdate(**body) validates: every field is optional and may be null
EventUpdateOk(b) ==
    \A k \in UpdateFields : Present(b, k) => FieldOk(k, b.vals[k])

\* a dump that keeps the unset fields, as None
EventUpdateDump_with_unset(b) ==
    Body([k \in (DOMAIN b.vals) \cap UpdateFields |-> FieldValue(k, b.vals[k])],
         UpdateFields \ DOMAIN b.vals)

\* event_update.model_dump(exclude_unset=True): the declared fields that were
\* given, a null one with value None
EventUpdateDump(b) ==
    Body([k \in (DOMAIN b.vals) \cap UpdateFields |-> FieldValue(k, b.vals[k])],
         b.nulls \cap UpdateFields)

-----------------------------------------------------------------------------
(* Exceptions and the handlers registered for them *)

NoExc == [cls |-> "none", message |-> "none"]
Exc(c, m) == [cls |-> c, message |-> m]

EventNotFoundException == Exc("EventNotFoundException", "not found")
DatabaseException(m) == Exc("DatabaseException", m)
ValidationException(m) == Exc("ValidationException", m)
RequestValidationError == Exc("RequestValidationError", "Invalid input data")

event_not_found_handler ==
    [code |-> HTTP_404_NOT_FOUND, error |-> "Not Found"]
database_exception_handler ==
    [code |-> HTTP_500_INTERNAL_SERVER_ERROR, error |-> "Database Error"]
validation_exception_handler ==
    [code |-> HTTP_422_UNPROCESSABLE_ENTITY, error |-> "Validation Error"]
request_validation_exception_handler ==
    [code |-> HTTP_422_UNPROCESSABLE_ENTITY, error |-> "Validation Error"]
generic_exception_handler ==
    [code |-> HTTP_500_INTERNAL_SERVER_ERROR, error |-> "Internal Server Error"]

\* app.add_exception_handler(...): the handler of the exception's class
HandlerOf(exc) ==
    CASE exc.cls = "EventNotFoundException" -> event_not_found_handler
      [] exc.cls = "DatabaseException" -> database_exception_handler
      [] exc.cls = "ValidationException" -> validation_exception_handler
      [] exc.cls = "RequestValidationError" -> request_validation_exception_handler
      [] OTHER -> generic_exception_handler

\* the response of a route: its success status, or the handler's answer
Response(exc, success) ==
    IF exc = NoExc THEN [code |-> success, error |-> "none"] ELSE HandlerOf(exc)

-----------------------------------------------------------------------------
(* The table *)

\* a put without its condition
unconditional_put(tbl, id) == TRUE

\* ConditionExpression='attribute_not_exists(eventId)' on the item of key id
attribute_not_exists(tbl, id) == tbl[id] = NoItem

\* an update or delete without its condition
unconditional_write(tbl, id) == TRUE

\* ConditionExpression='attribute_exists(eventId)' on the item of key id
attribute_exists(tbl, id) == tbl[id] # NoItem

\* a read that has not yet seen the item
get_item_stale(tbl, id) == NoItem

\* get_item(Key, ConsistentRead=True): the item as last written
get_item(tbl, id) == tbl[id]

\* what a request to the table can end with, apart from its condition failing:
\* it is served, or botocore raises ClientError (another code), BotoCoreError,
\* or something else
Faults == {"ok", "ClientError", "BotoCoreError", "Exception"}

\* the keys a scan still has to visit after position c of the scan order
RECURSIVE RestFrom(_, _)
RestFrom(tbl, c) ==
    IF c >= Len(ScanOrder) THEN <<>>
    ELSE IF tbl[ScanOrder[c + 1]] # NoItem
         THEN <<c + 1>> \o RestFrom(tbl, c + 1)
         ELSE RestFrom(tbl, c + 1)

\* the pages table.scan can answer with after position c: a page holds k of
\* the remaining items (at most Limit when one is given; the backend may cut
\* a page earlier) and carries LastEvaluatedKey when items remain, and
\* possibly also when the page was cut exactly at the last item
ScanPages(tbl, c, lim) ==
    LET rest == RestFrom(tbl, c)
        cap == IF lim = NoLimit THEN Len(rest) ELSE Min(lim, Len(rest))
        lo == IF cap = 0 THEN 0 ELSE 1
        cuts == { km \in (lo..cap) \X BOOLEAN :
                    /\ km[1] < Len(rest) => km[2]
                    /\ km[1] = 0 => ~km[2] }
    IN  { [ Items |-> [i \in 1..km[1] |-> tbl[ScanOrder[rest[i]]]],
            hasLEK |-> km[2],
            LEK |-> IF km[1] = 0 THEN c ELSE rest[km[1]] ] : km \in cuts }

-----------------------------------------------------------------------------
(* Processes: one request in flight each *)

Idle ==
    [ pc |-> "idle", op |-> "none", via |-> "none", id |-> "",
      patch |-> Body(EmptyDict, {}), item |-> NoItem, sets |-> EmptyDict,
      limit |-> NoLimit, filter |-> None, items |-> <<>>, lek |-> 0,
      exc |-> NoExc, ret |-> NoItem, resp |-> [code |-> 0, error |-> "none"] ]

\* a request that has finished with exception exc (NoExc: it returned r);
\* success is the route's status code, 0 for a direct call of the gateway
Finish(rq, exc, r, success) ==
    [rq EXCEPT !.pc = "done", !.exc = exc, !.ret = r,
               !.resp = IF rq.via = "http" THEN Response(exc, success)
                        ELSE [code |-> 0, error |-> "none"]]

CanStart(p) == proc[p].pc = "idle" /\ nreq < MaxRequests

Call(o, v, i) == [Idle EXCEPT !.op = o, !.via = v, !.id = i]

NoWrite == [kind |-> "none", updated |-> FALSE, rec |-> NoItem]

-----------------------------------------------------------------------------
(* Inputs of the model *)

sA == Run("a", 1)
sPadA == Run(" ", 1) \o Run("a", 1) \o Run(" ", 2)
sB == Run("b", 1)
sBlank == Run(" ", 3)
sLong(k) == Run("a", k)

ContentA ==
    [ title |-> sPadA, description |-> sA, date |-> "2024-06-15",
      location |-> sA, capacity |-> MIN_CAPACITY, organizer |-> sA,
      status |-> "draft" ]
ContentB ==
    [ title |-> sLong(MAX_TITLE_LENGTH), description |-> sB,
      date |-> "2024-06-15T09:00:00Z", location |-> sB,
      capacity |-> MAX_CAPACITY, organizer |-> sB, status |-> "published" ]

WithId(c, id) == Override(c, [k \in {"eventId"} |-> id])

\* bodies of POST /events
ValidCreateBodies ==
    { Body(c, {}) : c \in {ContentA, ContentB} }
    \cup { Body(WithId(c, id), {}) : c \in {ContentA, ContentB}, id \in EventIds }
InvalidCreateBodies ==
    { Body([ContentA EXCEPT !.capacity = 0], {}),
      Body([ContentA EXCEPT !.title = sBlank], {}),
      Body(WithId(ContentA, " "), {}),
      Body(Without(ContentA, "status"), {}),
      Body([ContentA EXCEPT !.capacity = MAX_CAPACITY + 1], {}),
      Body([ContentA EXCEPT !.title = sLong(MAX_TITLE_LENGTH + 1)], {}),
      Body([ContentA EXCEPT !.status = "archived"], {}) }
CreateBodies == ValidCreateBodies \cup InvalidCreateBodies

One(k, v) == [x \in {k} |-> v]

\* bodies of PUT /events/{event_id}, and patches passed to the gateway
SinglePatches ==
    { Body(One("title", sB), {}),
      Body(One("description", sPadA), {}),
      Body(One("date", "2024-06-15T09:00:00+02:00"), {}),
      Body(One("location", sB), {}),
      Body(One("capacity", 2), {}),
      Body(One("organizer", sB), {}),
      Body(One("status", "active"), {}) }
EmptyPatch == Body(EmptyDict, {})
NullPatch == Body(EmptyDict, {"title"})
\* bodies with keys EventUpdate does not declare (pydantic ignores them)
UndeclaredOnlyPatch == Body(One("eventId", "e2"), {})
UndeclaredAndCapacityPatch ==
    Body([eventId |-> "e2", createdAt |-> IsoZ(0), capacity |-> 3], {})
ValidPatches ==
    SinglePatches
    \cup { EmptyPatch, NullPatch, UndeclaredOnlyPatch, UndeclaredAndCapacityPatch,
           Body([title |-> sA, capacity |-> 2], {}),
           Body(One("status", "cancelled"), {"date"}) }
InvalidPatches ==
    { Body(One("capacity", MAX_CAPACITY + 1), {}),
      Body(One("title", sBlank), {}),
      Body(One("date", "not-a-date"), {}),
      Body(One("capacity", 0), {}),
      Body(One("description", sLong(MAX_DESCRIPTION_LENGTH + 1)), {}),
      Body(One("organizer", <<>>), {}),
      Body(One("status", "archived"), {}) }
PatchBodies == ValidPatches \cup InvalidPatches

\* update_data of direct calls of the gateway
GatewayPatches ==
    { EmptyPatch, NullPatch, Body(One("capacity", 2), {}),
      Body([createdAt |-> IsoZ(0), capacity |-> 3], {}),
      Body([eventId |-> "e2", capacity |-> 3], {}) }

\* ids in the path of a request
PathIds == EventIds \cup {" "}

-----------------------------------------------------------------------------
(* The gateway (database.py) and the routes (main.py) *)

\* datetime.utcnow(): the clock does not run backwards between two reads
ClockReads == now..Min(now + 1, MaxClock)

\* "except DatabaseException: raise / except Exception as e: raise
\* DatabaseException(msg)" of the routes
Reraise(exc, msg) ==
    IF exc.cls \in {"none", "EventNotFoundException", "ValidationException",
                    "DatabaseException"}
    THEN exc ELSE DatabaseException(msg)

\* create_event, lines 34-42: the item built from event_data
BuildItem(event_data, uuid, t) ==
    LET given == event_data["eventId"]
        event_id == IF given = None \/ given = "" THEN uuid ELSE given
    IN  Override([eventId |-> event_id, createdAt |-> IsoZ(t), updatedAt |-> IsoZ(t)],
                 Without(event_data, "eventId"))

\* create_event, lines 44-62: put_item and the mapping of its failures
create_event_put(tbl, item, fault) ==
    CASE fault = "ok" ->
            IF attribute_not_exists(tbl, item["eventId"])
            THEN [tbl |-> [tbl EXCEPT ![item["eventId"]] = item],
                  exc |-> NoExc, ret |-> item]
            ELSE [tbl |-> tbl, ret |-> NoItem,
                  exc |-> DatabaseException("Event with this ID already exists")]
      [] fault = "ClientError" ->
            [tbl |-> tbl, ret |-> NoItem,
             exc |-> DatabaseException("Failed to create event: ClientError")]
      [] fault = "BotoCoreError" ->
            [tbl |-> tbl, ret |-> NoItem,
             exc |-> DatabaseException("Database connection error")]
      [] OTHER ->
            [tbl |-> tbl, ret |-> NoItem, exc |-> Exc("Exception", "unexpected")]

\* POST /events: validation of the body, then create_event up to put_item
HttpCreate(p, body) ==
    /\ CanStart(p)
    /\ nreq' = nreq + 1
    /\ IF ~EventCreateOk(body)
       THEN /\ proc' = [proc EXCEPT ![p] =
                   Finish([Call("create", "http", "") EXCEPT !.patch = body],
                          RequestValidationError, NoItem, HTTP_201_CREATED)]
            /\ UNCHANGED now
       ELSE \E uuid \in UuidSpace, t \in ClockReads :
            LET item == BuildItem(EventCreateDump(body), uuid, t)
            IN  /\ now' = t
                /\ proc' = [proc EXCEPT ![p] =
                       [Call("create", "http", item["eventId"]) EXCEPT
                            !.pc = "put_item", !.patch = body, !.item = item]]
    /\ UNCHANGED <<store, hist>>

\* the put_item request of a create, and the rest of the route
PutItem(p) ==
    /\ proc[p].pc = "put_item"
    /\ \E fault \in Faults :
         LET out == create_event_put(store, proc[p].item, fault)
         IN  /\ store' = out.tbl
             /\ proc' = [proc EXCEPT ![p] =
                    Finish(proc[p], Reraise(out.exc, "Failed to create event"),
                           out.ret, HTTP_201_CREATED)]
             /\ hist' = IF out.exc = NoExc
                             THEN [hist EXCEPT ![proc[p].id] =
                                      [kind |-> "create", updated |-> FALSE,
                                       rec |-> out.ret]]
                             ELSE hist
    /\ UNCHANGED <<now, nreq>>

\* what a route raises for what the gateway raised; a direct call of the
\* gateway raises it as it is
Raised(rq, exc, msg) == IF rq.via = "http" THEN Reraise(exc, msg) ELSE exc

\* "if not event_id or not event_id.strip()"
IsBlankId(event_id) == event_id = "" \/ StripId(event_id) = ""

\* get_event: the blank check, get_item and the mapping of its failures
get_event(tbl, event_id, fault) ==
    IF IsBlankId(event_id)
    THEN [ret |-> NoItem, exc |-> DatabaseException("Event ID cannot be empty")]
    ELSE CASE fault = "ok" -> [ret |-> get_item(tbl, event_id), exc |-> NoExc]
           [] fault = "ClientError" ->
                [ret |-> NoItem,
                 exc |-> DatabaseException("Failed to retrieve event: ClientError")]
           [] fault = "BotoCoreError" ->
                [ret |-> NoItem, exc |-> DatabaseException("Database connection error")]
           [] OTHER -> [ret |-> NoItem, exc |-> Exc("Exception", "unexpected")]

\* GET /events/{event_id}: get_event, and 404 when it returns None
HttpGet(p, event_id) ==
    /\ CanStart(p)
    /\ nreq' = nreq + 1
    /\ \E fault \in Faults :
         LET out == get_event(store, event_id, fault)
             exc == IF out.exc = NoExc /\ out.ret = NoItem
                    THEN EventNotFoundException ELSE out.exc
         IN  proc' = [proc EXCEPT ![p] =
                 Finish(Call("get", "http", event_id),
                        Reraise(exc, "Failed to retrieve event"), out.ret, HTTP_200_OK)]
    /\ UNCHANGED <<store, now, hist>>

\* an expression that stamps createdAt as well
BuildUpdate_restamp(update_data, t) ==
    Override([updatedAt |-> IsoZ(t), createdAt |-> IsoZ(t)], update_data.vals)

\* an expression that clears the keys whose value is None
BuildUpdate_writes_nulls(update_data, t) ==
    Override(Override([updatedAt |-> IsoZ(t)], update_data.vals),
             [k \in update_data.nulls |-> <<>>])

\* update_event, lines 126-141: the attributes the UpdateExpression sets;
\* a key whose value is None is left out
BuildUpdate(update_data, t) ==
    Override([updatedAt |-> IsoZ(t)], update_data.vals)

\* update_event without the early return for an empty patch
update_event_begin_always_writes(p, rq, update_data) ==
    IF IsBlankId(rq.id)
    THEN /\ proc' = [proc EXCEPT ![p] =
                Finish(rq, DatabaseException("Event ID cannot be empty"),
                       NoItem, HTTP_200_OK)]
         /\ UNCHANGED now
    ELSE \E t \in ClockReads :
         /\ now' = t
         /\ proc' = [proc EXCEPT ![p] =
                [rq EXCEPT !.pc = "update_item", !.sets = BuildUpdate(update_data, t)]]

\* update_event, lines 120-141, called with (event_id, update_data): the blank
\* check, the empty patch answered by get_event, else the expression is built
\* and the request goes on to update_item
update_event_begin(p, rq, update_data) ==
    IF IsBlankId(rq.id)
    THEN /\ proc' = [proc EXCEPT ![p] =
                Finish(rq, DatabaseException("Event ID cannot be empty"),
                       NoItem, HTTP_200_OK)]
         /\ UNCHANGED now
    ELSE IF Keys(update_data) = {}
    THEN /\ \E fault \in Faults :
              LET out == get_event(store, rq.id, fault)
              IN  proc' = [proc EXCEPT ![p] =
                      Finish(rq, Raised(rq, out.exc, "Failed to update event"),
                             out.ret, HTTP_200_OK)]
         /\ UNCHANGED now
    ELSE \E t \in ClockReads :
         /\ now' = t
         /\ proc' = [proc EXCEPT ![p] =
                [rq EXCEPT !.pc = "update_item", !.sets = BuildUpdate(update_data, t)]]

\* PUT /events/{event_id}: validation of the body, the empty patch refused,
\* then update_event up to update_item
HttpUpdate(p, event_id, body) ==
    /\ CanStart(p)
    /\ nreq' = nreq + 1
    /\ LET rq == [Call("update", "http", event_id) EXCEPT !.patch = body]
       IN  IF ~EventUpdateOk(body)
           THEN /\ proc' = [proc EXCEPT ![p] =
                       Finish(rq, RequestValidationError, NoItem, HTTP_200_OK)]
                /\ UNCHANGED now
           ELSE IF Keys(EventUpdateDump(body)) = {}
           THEN /\ proc' = [proc EXCEPT ![p] =
                       Finish(rq, ValidationException("No fields provided for update"),
                              NoItem, HTTP_200_OK)]
                /\ UNCHANGED now
           ELSE update_event_begin(p, rq, EventUpdateDump(body))
    /\ UNCHANGED <<store, hist>>

\* db_client.update_event(event_id, update_data) called directly
DbUpdate(p, event_id, update_data) ==
    /\ CanStart(p)
    /\ nreq' = nreq + 1
    /\ update_event_begin(p, [Call("update", "db", event_id) EXCEPT !.patch = update_data],
                          update_data)
    /\ UNCHANGED <<store, hist>>

\* the ClientError (ValidationException) of an UpdateExpression that sets the
\* key attribute, as update_event maps it
KeyUpdateRefused ==
    DatabaseException("Failed to update event: Cannot update attribute eventId")

\* update_event, lines 143-169: update_item and the mapping of its failures.
\* The table refuses an expression that sets the key attribute before it
\* evaluates the condition.
update_event_update(tbl, event_id, sets, fault) ==
    CASE fault = "ok" ->
            IF "eventId" \in DOMAIN sets
            THEN [tbl |-> tbl, ret |-> NoItem, exc |-> KeyUpdateRefused]
            ELSE IF attribute_exists(tbl, event_id)
            THEN LET new == Override(tbl[event_id], sets)
                 IN  [tbl |-> [tbl EXCEPT ![event_id] = new], exc |-> NoExc, ret |-> new]
            ELSE [tbl |-> tbl, ret |-> NoItem, exc |-> EventNotFoundException]
      [] fault = "ClientError" ->
            [tbl |-> tbl, ret |-> NoItem,
             exc |-> DatabaseException("Failed to update event: ClientError")]
      [] fault = "BotoCoreError" ->
            [tbl |-> tbl, ret |-> NoItem,
             exc |-> DatabaseException("Database connection error")]
      [] OTHER ->
            [tbl |-> tbl, ret |-> NoItem, exc |-> Exc("Exception", "unexpected")]

\* the update_item request of an update, and the rest of the route
UpdateItem(p) ==
    /\ proc[p].pc = "update_item"
    /\ \E fault \in Faults :
         LET out == update_event_update(store, proc[p].id, proc[p].sets, fault)
         IN  /\ store' = out.tbl
             /\ proc' = [proc EXCEPT ![p] =
                    Finish(proc[p], Raised(proc[p], out.exc, "Failed to update event"),
                           out.ret, HTTP_200_OK)]
             /\ hist' = IF out.exc = NoExc
                             THEN [hist EXCEPT ![proc[p].id] =
                                      [@ EXCEPT !.updated = TRUE, !.rec = out.ret]]
                             ELSE hist
    /\ UNCHANGED <<now, nreq>>

\* a delete that marks the item instead of removing it
delete_event_soft(tbl, event_id, fault) ==
    IF IsBlankId(event_id)
    THEN [tbl |-> tbl, exc |-> DatabaseException("Event ID cannot be empty")]
    ELSE IF fault = "ok" /\ attribute_exists(tbl, event_id)
    THEN [tbl |-> [tbl EXCEPT ![event_id] = Override(@, [deleted |-> TRUE])],
          exc |-> NoExc]
    ELSE [tbl |-> tbl, exc |-> EventNotFoundException]

\* delete_event: the blank check, delete_item and the mapping of its failures
delete_event(tbl, event_id, fault) ==
    IF IsBlankId(event_id)
    THEN [tbl |-> tbl, exc |-> DatabaseException("Event ID cannot be empty")]
    ELSE CASE fault = "ok" ->
                IF attribute_exists(tbl, event_id)
                THEN [tbl |-> [tbl EXCEPT ![event_id] = NoItem], exc |-> NoExc]
                ELSE [tbl |-> tbl, exc |-> EventNotFoundException]
           [] fault = "ClientError" ->
                [tbl |-> tbl,
                 exc |-> DatabaseException("Failed to delete event: ClientError")]
           [] fault = "BotoCoreError" ->
                [tbl |-> tbl, exc |-> DatabaseException("Database connection error")]
           [] OTHER -> [tbl |-> tbl, exc |-> Exc("Exception", "unexpected")]

\* DELETE /events/{event_id}
HttpDelete(p, event_id) ==
    /\ CanStart(p)
    /\ nreq' = nreq + 1
    /\ \E fault \in Faults :
         LET out == delete_event(store, event_id, fault)
         IN  /\ store' = out.tbl
             /\ proc' = [proc EXCEPT ![p] =
                    Finish(Call("delete", "http", event_id),
                           Reraise(out.exc, "Failed to delete event"),
                           NoItem, HTTP_204_NO_CONTENT)]
             /\ hist' = IF out.exc = NoExc
                             THEN [hist EXCEPT ![event_id] =
                                      [kind |-> "delete", updated |-> FALSE,
                                       rec |-> NoItem]]
                             ELSE hist
    /\ UNCHANGED now

\* every scan asks for the whole limit again
ScanLimit_whole(rq) == rq.limit

\* list_events, lines 92-95 and 101-103: the Limit of the next scan
ScanLimit(rq) ==
    IF rq.limit = NoLimit THEN NoLimit ELSE rq.limit - Len(rq.items)

\* list_events, line 99: the loop goes on
MorePages(hasLEK, limit, items) ==
    hasLEK /\ (limit = NoLimit \/ Len(items) < limit)

\* list_events, lines 108-116: the mapping of a failed scan
list_events_failure(fault) ==
    CASE fault = "ClientError" ->
            DatabaseException("Failed to list events: ClientError")
      [] fault = "BotoCoreError" -> DatabaseException("Database connection error")
      [] OTHER -> Exc("Exception", "unexpected")

\* a health check that lets the exception of list_events through
FinishList_health_raises(rq, exc, items) ==
    IF rq.op = "health"
    THEN [rq EXCEPT !.pc = "done", !.items = items,
            !.exc = Reraise(exc, "Failed to list events"),
            !.resp = IF exc = NoExc
                     THEN [code |-> HTTP_200_OK, error |-> "none",
                           status |-> "healthy", database |-> "connected"]
                     ELSE [code |-> HandlerOf(Reraise(exc, "Failed to list events")).code,
                           error |-> exc.message,
                           status |-> "unhealthy", database |-> "disconnected"]]
    ELSE LET events == IF rq.filter = None THEN items
                       ELSE SelectSeq(items, LAMBDA e : e["status"] = rq.filter)
         IN  [Finish(rq, Reraise(exc, "Failed to list events"), NoItem, HTTP_200_OK)
                 EXCEPT !.items = items,
                        !.ret = IF exc = NoExc THEN events ELSE <<>>]

\* the routes over list_events: GET /events filters by status after the
\* retrieval; GET /health catches everything and always answers 200
FinishList(rq, exc, items) ==
    IF rq.op = "health"
    THEN [rq EXCEPT !.pc = "done", !.items = items, !.exc = NoExc,
            !.resp = IF exc = NoExc
                     THEN [code |-> HTTP_200_OK, error |-> "none",
                           status |-> "healthy", database |-> "connected"]
                     ELSE [code |-> HTTP_200_OK, error |-> exc.message,
                           status |-> "unhealthy", database |-> "disconnected"]]
    ELSE LET events == IF rq.filter = None THEN items
                       ELSE SelectSeq(items, LAMBDA e : e["status"] = rq.filter)
         IN  [Finish(rq, Reraise(exc, "Failed to list events"), NoItem, HTTP_200_OK)
                 EXCEPT !.items = items,
                        !.ret = IF exc = NoExc THEN events ELSE <<>>]

\* one table.scan of list_events and what follows it: the next turn of the
\* loop, or the return through the route
ScanStep(p, rq) ==
    \E fault \in Faults :
       IF fault # "ok"
       THEN proc' = [proc EXCEPT ![p] = FinishList(rq, list_events_failure(fault), <<>>)]
       ELSE \E page \in ScanPages(store, rq.lek, ScanLimit(rq)) :
              LET items == rq.items \o page.Items
              IN  proc' = [proc EXCEPT ![p] =
                      IF MorePages(page.hasLEK, rq.limit, items)
                      THEN [rq EXCEPT !.pc = "scan", !.items = items, !.lek = page.LEK]
                      ELSE FinishList(rq, NoExc, items)]

\* the limit parameter of GET /events: not given, or an integer
LimitQuery(given, v) == [given |-> given, v |-> v]
LimitQueryOk(q) == ~q.given \/ (q.v >= LIMIT_GE /\ q.v <= LIMIT_LE)

\* GET /events?limit=&status=: the query is validated, then list_events runs
\* its first scan
HttpList(p, q, status_filter) ==
    /\ CanStart(p)
    /\ nreq' = nreq + 1
    /\ LET rq == [Call("list", "http", "") EXCEPT
                     !.limit = IF q.given THEN q.v ELSE NoLimit,
                     !.filter = status_filter]
       IN  IF ~LimitQueryOk(q)
           THEN proc' = [proc EXCEPT ![p] =
                    [Finish(rq, RequestValidationError, NoItem, HTTP_200_OK)
                        EXCEPT !.ret = <<>>]]
           ELSE ScanStep(p, rq)
    /\ UNCHANGED <<store, now, hist>>

\* GET /health: list_events(limit=1)
HealthCheck(p) ==
    /\ CanStart(p)
    /\ nreq' = nreq + 1
    /\ ScanStep(p, [Call("health", "http", "") EXCEPT !.limit = HEALTH_LIMIT])
    /\ UNCHANGED <<store, now, hist>>

\* a later turn of the pagination loop
ScanNext(p) ==
    /\ proc[p].pc = "scan"
    /\ ScanStep(p, proc[p])
    /\ UNCHANGED <<store, now, nreq, hist>>

-----------------------------------------------------------------------------
(* Specifications *)

\* the response has been sent: the worker is free for the next request
Respond(p) ==
    /\ proc[p].pc = "done"
    /\ proc' = [proc EXCEPT ![p] = Idle]
    /\ UNCHANGED <<store, now, nreq, hist>>

Init ==
    /\ store = [id \in AllIds |-> NoItem]
    /\ now = 0
    /\ proc = [p \in Procs |-> Idle]
    /\ nreq = 0
    /\ hist = [id \in AllIds |-> NoWrite]

\* the limit queries of the service model
LimitQueries ==
    { LimitQuery(FALSE, 0), LimitQuery(TRUE, 0), LimitQuery(TRUE, 1),
      LimitQuery(TRUE, LIMIT_LE + 1) }

Next ==
    \E p \in {"p1"} :
        \/ \E body \in CreateBodies : HttpCreate(p, body)
        \/ PutItem(p)
        \/ \E id \in PathIds : HttpGet(p, id)
        \/ \E id \in PathIds, body \in PatchBodies : HttpUpdate(p, id, body)
        \/ \E id \in PathIds \cup {""}, data \in GatewayPatches : DbUpdate(p, id, data)
        \/ UpdateItem(p)
        \/ \E id \in PathIds : HttpDelete(p, id)
        \/ \E q \in LimitQueries, f \in {None, "published"} : HttpList(p, q, f)
        \/ HealthCheck(p)
        \/ ScanNext(p)
        \/ Respond(p)

Spec == Init /\ [][Next]_vars

\* Concurrent requests on one eventId: each worker takes one request, and the
\* table requests of the workers interleave in every order
RaceBodies == { Body(WithId(ContentA, "e1"), {}), Body(WithId(ContentB, "e1"), {}) }
RacePatches == { Body(One("capacity", 2), {}) }

NextRace ==
    \E p \in Procs :
        \/ \E body \in RaceBodies : HttpCreate(p, body)
        \/ PutItem(p)
        \/ HttpGet(p, "e1")
        \/ \E body \in RacePatches : HttpUpdate(p, "e1", body)
        \/ UpdateItem(p)
        \/ HttpDelete(p, "e1")

SpecRace == Init /\ [][NextRace]_vars

\* list_events on a table that holds any of the keys: the records are those
\* POST /events has stored under these ids
StoredItem(id) ==
    BuildItem(EventCreateDump(Body(WithId(IF id \in {"e1", "e3"} THEN ContentA
                                          ELSE ContentB, id), {})), id, 0)

InitList ==
    /\ \E S \in SUBSET AllIds :
         /\ store = [id \in AllIds |-> IF id \in S THEN StoredItem(id) ELSE NoItem]
         /\ hist = [id \in AllIds |->
                       IF id \in S
                       THEN [kind |-> "create", updated |-> FALSE, rec |-> StoredItem(id)]
                       ELSE NoWrite]
    /\ now = 0
    /\ proc = [p \in Procs |-> Idle]
    /\ nreq = 0

ListQueries ==
    { LimitQuery(FALSE, 0) } \cup { LimitQuery(TRUE, n) : n \in 0..MaxLimit }

NextList ==
    \E p \in {"p1"} :
        \/ \E q \in ListQueries, f \in {None, "published"} : HttpList(p, q, f)
        \/ HealthCheck(p)
        \/ ScanNext(p)
        \/ Respond(p)

SpecList == InitList /\ [][NextList]_vars

-----------------------------------------------------------------------------
(* Vocabulary of the properties *)

\* the domain error kinds of the gateway, as the exceptions it raises
Conflict == DatabaseException("Event with this ID already exists")
Invalid == DatabaseException("Event ID cannot be empty")
NotFound == EventNotFoundException

\* the messages of a request the backend failed (transport or other error)
BackendFailureMessages ==
    { "Database connection error", "unexpected",
      "Failed to create event: ClientError", "Failed to create event",
      "Failed to retrieve event: ClientError", "Failed to retrieve event",
      "Failed to update event: ClientError", "Failed to update event",
      "Failed to delete event: ClientError", "Failed to delete event",
      "Failed to list events: ClientError", "Failed to list events" }

\* the request was answered by the table: the backend did not fail it
Served(rq) == rq.exc.message \notin BackendFailureMessages

Done(p) == proc[p].pc = "done"

\* process p finishes its request in this step
Finishes(p) == proc[p].pc # "done" /\ proc'[p].pc = "done"

\* the number of records of a table
Count(tbl) == Cardinality({id \in AllIds : tbl[id] # NoItem})

-----------------------------------------------------------------------------
(* C1: creates of one eventId that race against a table without that id:  *)
(* exactly one of those the table answers succeeds, every other one fails  *)
(* with Conflict, and the record stored under the id is the one the        *)
(* successful create wrote (its createdAt and its content).                *)

RaceId == "e1"

CreatesAnswered ==
    {p \in Procs : Done(p) /\ proc[p].op = "create" /\ proc[p].id = RaceId
                   /\ Served(proc[p])}
CreatesWon == {p \in CreatesAnswered : proc[p].exc = NoExc}

NoDeleteYet ==
    \A p \in Procs : ~(Done(p) /\ proc[p].op = "delete" /\ proc[p].exc = NoExc)

C1_OneCreateWins ==
    NoDeleteYet =>
        /\ Cardinality(CreatesWon) <= 1
        /\ CreatesAnswered # {} => Cardinality(CreatesWon) = 1
        /\ \A p \in CreatesAnswered \ CreatesWon : proc[p].exc = Conflict
        /\ store[RaceId] # NoItem => CreatesWon # {}
        /\ \A p \in CreatesWon :
              /\ store[RaceId] # NoItem
              /\ proc[p].ret = proc[p].item
              /\ \A k \in (DOMAIN proc[p].ret) \ {"updatedAt", "capacity"} :
                    store[RaceId][k] = proc[p].ret[k]
              /\ ~hist[RaceId].updated => store[RaceId] = proc[p].ret

\* three creates of the same id have been answered: one won, two lost
C1_Witness ==
    /\ NoDeleteYet
    /\ Cardinality(CreatesAnswered) = 3
    /\ Cardinality(CreatesWon) = 1
    /\ \E p, q \in CreatesAnswered :
          /\ proc[p].exc = NoExc /\ proc[q].exc = Conflict
          /\ proc[p].item # proc[q].item
          /\ store[RaceId] = proc[p].item

-----------------------------------------------------------------------------
(* C2: a create whose eventId has a record when put_item is answered fails *)
(* with Conflict (the duplicate-id DatabaseException) and leaves the table *)
(* as it was, the existing record with every field, createdAt and          *)
(* updatedAt included.                                                     *)

C2_Step ==
    \A p \in Procs :
        (proc[p].pc = "put_item" /\ Finishes(p) /\ store[proc[p].id] # NoItem)
        => /\ store' = store
           /\ proc'[p].exc # NoExc
           /\ Served(proc'[p]) => proc'[p].exc = Conflict

C2_DuplicateCreateConflicts == [][C2_Step]_vars

\* a create was refused with Conflict and the record it met, stamped at
\* another time than the refused item, is still the stored one
C2_Witness ==
    \E p \in Procs :
        /\ Done(p) /\ proc[p].op = "create" /\ proc[p].exc = Conflict
        /\ store[proc[p].id] # NoItem
        /\ store[proc[p].id] = hist[proc[p].id].rec
        /\ store[proc[p].id]["createdAt"] # proc[p].item["createdAt"]
        /\ store[proc[p].id]["title"] # proc[p].item["title"]

-----------------------------------------------------------------------------
(* C3: update and delete of a non-blank eventId that has no record.        *)

\* the patch the gateway receives from the request
GatewayPatch(rq) ==
    IF rq.via = "db" THEN rq.patch ELSE EventUpdateDump(rq.patch)

\* p finishes, in this step, a call of the gateway's update_event / delete_event
\* that the table answered, for a non-blank id without a record
UpdateOfAbsent(p) ==
    /\ Finishes(p) /\ proc'[p].op = "update"
    /\ proc'[p].via = "http" =>
          proc'[p].exc.cls \notin {"RequestValidationError", "ValidationException"}
    /\ Served(proc'[p])
    /\ ~IsBlankId(proc'[p].id) /\ store[proc'[p].id] = NoItem

DeleteOfAbsent(p) ==
    /\ Finishes(p) /\ proc'[p].op = "delete"
    /\ Served(proc'[p])
    /\ ~IsBlankId(proc'[p].id) /\ store[proc'[p].id] = NoItem

\* C3 as claimed: for every patch the update fails with NotFound
C3_Original_Step ==
    \A p \in Procs :
        /\ UpdateOfAbsent(p) => proc'[p].exc = NotFound /\ store' = store
        /\ DeleteOfAbsent(p) => proc'[p].exc = NotFound /\ store' = store

C3_Amended_Step ==
    \A p \in Procs :
        /\ (/\ UpdateOfAbsent(p)
            /\ Keys(GatewayPatch(proc'[p])) # {}
            /\ "eventId" \notin Keys(GatewayPatch(proc'[p])))
              => proc'[p].exc = NotFound /\ store' = store
        /\ DeleteOfAbsent(p) => proc'[p].exc = NotFound /\ store' = store

-----------------------------------------------------------------------------
(* C4: an update whose patch holds exactly one mutable field, with a value, *)
(* changes that field and updatedAt of the record and nothing else: the     *)
(* other attributes, eventId and createdAt among them, and every other      *)
(* record are as before; the update returns the new record.                 *)

SingleField(d) ==
    d.nulls = {} /\ Cardinality(DOMAIN d.vals) = 1 /\ (DOMAIN d.vals) \subseteq UpdateFields

C4_Step ==
    \A p \in Procs :
        (/\ proc[p].pc = "update_item" /\ Finishes(p)
         /\ proc'[p].exc = NoExc
         /\ SingleField(GatewayPatch(proc[p])))
        => LET id == proc[p].id
               d == GatewayPatch(proc[p])
               old == store[id]
               new == store'[id]
           IN  /\ old # NoItem /\ new # NoItem
               /\ DOMAIN new = DOMAIN old
               /\ \A k \in (DOMAIN old) \ ((DOMAIN d.vals) \cup {"updatedAt"}) :
                     new[k] = old[k]
               /\ \A k \in DOMAIN d.vals : new[k] = d.vals[k]
               /\ new["updatedAt"] = proc[p].sets["updatedAt"]
               /\ proc'[p].ret = new
               /\ \A other \in AllIds \ {id} : store'[other] = store[other]

C4_SingleFieldUpdate == [][C4_Step]_vars

\* a single-field update of a record succeeded at a later instant than the
\* record's creation, next to another record
C4_Witness ==
    \E p \in Procs :
        /\ Done(p) /\ proc[p].op = "update" /\ proc[p].exc = NoExc
        /\ SingleField(GatewayPatch(proc[p]))
        /\ store[proc[p].id] = proc[p].ret
        /\ Instant(proc[p].ret["createdAt"]) < Instant(proc[p].ret["updatedAt"])
        /\ \E other \in AllIds \ {proc[p].id} : store[other] # NoItem

-----------------------------------------------------------------------------
(* C5: the gateway's update_event with an empty patch on an existing       *)
(* record writes nothing: it returns the record as stored and the table,   *)
(* the record's updatedAt included, is unchanged.                          *)

C5_Step ==
    \A p \in Procs :
        (/\ Finishes(p) /\ proc'[p].op = "update" /\ proc'[p].via = "db"
         /\ Keys(proc'[p].patch) = {}
         /\ Served(proc'[p])
         /\ ~IsBlankId(proc'[p].id) /\ store[proc'[p].id] # NoItem)
        => /\ proc'[p].exc = NoExc
           /\ proc'[p].ret = store[proc'[p].id]
           /\ store' = store

C5_EmptyPatchIsGet == [][C5_Step]_vars

\* an empty update returned a record that was last written before now
C5_Witness ==
    \E p \in Procs :
        /\ Done(p) /\ proc[p].op = "update" /\ proc[p].via = "db"
        /\ Keys(proc[p].patch) = {}
        /\ proc[p].exc = NoExc
        /\ proc[p].ret # NoItem /\ store[proc[p].id] = proc[p].ret
        /\ Instant(proc[p].ret["updatedAt"]) < now

-----------------------------------------------------------------------------
(* C6: round trip.  A get of an eventId whose last successful write is a   *)
(* create (no update or delete of it since) returns a record equal in every *)
(* field to the record that create returned.                               *)

C6_Step ==
    \A p \in Procs :
        (/\ Finishes(p) /\ proc'[p].op = "get"
         /\ Served(proc'[p])
         /\ ~IsBlankId(proc'[p].id)
         /\ hist[proc'[p].id].kind = "create" /\ ~hist[proc'[p].id].updated)
        => /\ proc'[p].exc = NoExc
           /\ proc'[p].ret = hist[proc'[p].id].rec
           /\ proc'[p].resp.code = HTTP_200_OK

C6_RoundTrip == [][C6_Step]_vars

\* a get returned the record of a create, timestamps included
C6_Witness ==
    \E p \in Procs :
        /\ Done(p) /\ proc[p].op = "get" /\ proc[p].exc = NoExc
        /\ hist[proc[p].id].kind = "create" /\ ~hist[proc[p].id].updated
        /\ proc[p].ret = hist[proc[p].id].rec
        /\ proc[p].ret["updatedAt"] = IsoZ(1)
        /\ proc[p].ret["title"] = sA

-----------------------------------------------------------------------------
(* C7: a record is in the table exactly when the last successful create or *)
(* delete of its eventId was a create.  Only a successful create adds a    *)
(* record and only a successful delete removes one; after a delete a get   *)
(* returns None and a create of the same eventId succeeds.                 *)

C7_Inv ==
    \A id \in AllIds : (store[id] # NoItem) <=> (hist[id].kind = "create")

C7_Step ==
    /\ \A id \in AllIds :
          ((store[id] = NoItem) # (store'[id] = NoItem))
          => \E p \in Procs :
                /\ Finishes(p) /\ proc'[p].exc = NoExc /\ proc'[p].id = id
                /\ \/ proc'[p].op = "create" /\ store[id] = NoItem
                   \/ proc'[p].op = "delete" /\ store'[id] = NoItem
    /\ \A p \in Procs :
          (/\ Finishes(p) /\ Served(proc'[p]) /\ ~IsBlankId(proc'[p].id)
           /\ hist[proc'[p].id].kind = "delete")
          => /\ proc'[p].op = "get" => proc'[p].ret = NoItem
             /\ proc'[p].op = "create" => proc'[p].exc = NoExc

C7_ExistsIffCreated == []C7_Inv /\ [][C7_Step]_vars

\* a record was created and deleted, and a get of it found nothing
C7_Witness ==
    \E p \in Procs :
        /\ Done(p) /\ proc[p].op = "get"
        /\ proc[p].ret = NoItem /\ proc[p].exc = NotFound
        /\ proc[p].id \in AllIds
        /\ hist[proc[p].id].kind = "delete"
        /\ store[proc[p].id] = NoItem

-----------------------------------------------------------------------------
(* C8: every stored record has createdAt <= updatedAt.                     *)

C8_CreatedBeforeUpdated ==
    \A id \in AllIds :
        store[id] # NoItem =>
            Instant(store[id]["createdAt"]) <= Instant(store[id]["updatedAt"])

-----------------------------------------------------------------------------
(* C9: list_events over a table of N records, however the scan is paged:   *)
(* with a limit L >= 1 it returns min(L, N) records, without a limit all N; *)
(* every returned record is a stored record and none is returned twice; the *)
(* loop goes on only while fewer than L items are collected.               *)

C9_ListLimit ==
    \A p \in Procs :
        /\ (Done(p) /\ proc[p].op = "list" /\ proc[p].exc = NoExc)
           => LET items == proc[p].items
                  L == proc[p].limit
              IN  /\ Len(items) = IF L = NoLimit THEN Count(store)
                                  ELSE Min(L, Count(store))
                  /\ L # NoLimit => Len(items) <= L
                  /\ \A i \in 1..Len(items) :
                        /\ items[i] # NoItem
                        /\ store[items[i]["eventId"]] = items[i]
                  /\ \A i, j \in 1..Len(items) :
                        i # j => items[i]["eventId"] # items[j]["eventId"]
        /\ proc[p].pc = "scan"
           => /\ proc[p].limit = NoLimit \/ Len(proc[p].items) < proc[p].limit
              /\ proc[p].lek \in 1..Len(ScanOrder)

\* list(limit=2) of a table of four records, collected over several pages
C9_Witness ==
    \E p \in Procs :
        /\ Done(p) /\ proc[p].op = "list" /\ proc[p].exc = NoExc
        /\ proc[p].limit = 2 /\ Count(store) = 4
        /\ Len(proc[p].items) = 2
        /\ proc[p].lek # 0

-----------------------------------------------------------------------------
(* C10: a failed request is answered with the status code of its error     *)
(* kind: NotFound 404; Conflict, Invalid and validation failures 422;      *)
(* ConnectionError and unclassified errors 500; and the error category of  *)
(* the body tells these three groups apart.                                *)

ErrorKind(exc) ==
    CASE exc = NotFound -> "NotFound"
      [] exc = Conflict -> "Conflict"
      [] exc = Invalid -> "Invalid"
      [] exc.cls \in {"RequestValidationError", "ValidationException"} -> "Validation"
      [] OTHER -> "ConnectionError"

StatusOfKind(kind) ==
    CASE kind = "NotFound" -> HTTP_404_NOT_FOUND
      [] kind \in {"Conflict", "Invalid", "Validation"} -> HTTP_422_UNPROCESSABLE_ENTITY
      [] OTHER -> HTTP_500_INTERNAL_SERVER_ERROR

\* the error categories the handlers answer with for the exceptions of a status
SampleExceptions ==
    { NotFound, Conflict, Invalid, RequestValidationError,
      ValidationException("No fields provided for update"),
      DatabaseException("Database connection error"),
      DatabaseException("Failed to create event") }
CategoriesOfStatus(code) ==
    { HandlerOf(e).error : e \in {x \in SampleExceptions :
                                     StatusOfKind(ErrorKind(x)) = code} }

C10_StatusOfErrorKind ==
    \A p \in Procs :
        (Done(p) /\ proc[p].via = "http" /\ proc[p].exc # NoExc)
        => /\ proc[p].resp.code = StatusOfKind(ErrorKind(proc[p].exc))
           /\ \A code \in {HTTP_404_NOT_FOUND, HTTP_422_UNPROCESSABLE_ENTITY,
                           HTTP_500_INTERNAL_SERVER_ERROR} :
                 code # StatusOfKind(ErrorKind(proc[p].exc))
                 => proc[p].resp.error \notin CategoriesOfStatus(code)

-----------------------------------------------------------------------------
(* C11: PUT /events/{event_id} with a valid body in which no declared field *)
(* is set is answered 422 by the route itself, in the step that receives   *)
(* it and whatever the table would have answered, whether or not the       *)
(* record exists, and the table is unchanged.  With a body that sets a     *)
(* field, a non-blank id and a table that answers, the response is 200     *)
(* with the updated record when the record exists and 404 when not.        *)

\* p finishes, in this step, a PUT whose body passed EventUpdate's validation
PutAnswered(p) ==
    /\ Finishes(p) /\ proc'[p].op = "update" /\ proc'[p].via = "http"
    /\ proc'[p].exc.cls # "RequestValidationError"

NoFieldSet(body) == Keys(body) \cap UpdateFields = {}

C11_Step ==
    \A p \in Procs :
        PutAnswered(p) =>
            IF NoFieldSet(proc'[p].patch)
            THEN /\ proc[p].pc = "idle"
                 /\ proc'[p].exc = ValidationException("No fields provided for update")
                 /\ proc'[p].resp.code = HTTP_422_UNPROCESSABLE_ENTITY
                 /\ store' = store
            ELSE (Served(proc'[p]) /\ ~IsBlankId(proc'[p].id)) =>
                 IF store[proc'[p].id] # NoItem
                 THEN /\ proc'[p].resp.code = HTTP_200_OK
                      /\ proc'[p].exc = NoExc
                      /\ proc'[p].ret = store'[proc'[p].id]
                      /\ proc'[p].ret # NoItem
                 ELSE /\ proc'[p].resp.code = HTTP_404_NOT_FOUND
                      /\ store' = store

C11_EmptyPutRejected == [][C11_Step]_vars

\* an empty PUT of an existing record was answered 422
C11_Witness ==
    \E p \in Procs :
        /\ Done(p) /\ proc[p].op = "update" /\ proc[p].via = "http"
        /\ proc[p].patch = EmptyPatch
        /\ proc[p].resp.code = HTTP_422_UNPROCESSABLE_ENTITY
        /\ proc[p].id \in AllIds
        /\ store[proc[p].id] # NoItem

-----------------------------------------------------------------------------
(* C12: a successful POST /events whose valid body carries no eventId       *)
(* stores and returns a record whose eventId is a generated one that no    *)
(* record of the table had, whose createdAt equals its updatedAt, whose    *)
(* title, description, location and organizer are the input values         *)
(* stripped, and whose other fields are the input values; no other record  *)
(* changes.                                                                *)

C12_Step ==
    \A p \in Procs :
        (/\ proc[p].pc = "put_item" /\ Finishes(p)
         /\ proc'[p].exc = NoExc
         /\ ~Present(proc[p].patch, "eventId"))
        => LET body == proc[p].patch
               rec == proc'[p].ret
               id == rec["eventId"]
           IN  /\ id \in UuidSpace
               /\ id = proc[p].id
               /\ \A other \in AllIds :
                     store[other] # NoItem
                     => other # id /\ store[other]["eventId"] # id
               /\ store'[id] = rec
               /\ \A other \in AllIds \ {id} : store'[other] = store[other]
               /\ rec["createdAt"] = rec["updatedAt"]
               /\ \A k \in StringFields :
                     /\ rec[k] = Strip(body.vals[k])
                     /\ LStrip(rec[k]) = rec[k] /\ RStrip(rec[k]) = rec[k]
               /\ \A k \in UpdateFields \ StringFields : rec[k] = body.vals[k]
               /\ proc'[p].resp.code = HTTP_201_CREATED

C12_CreateWithoutId == [][C12_Step]_vars

\* a create without eventId, whose title needed stripping, succeeded next to
\* a record that was already stored
C12_Witness ==
    \E p \in Procs :
        /\ Done(p) /\ proc[p].op = "create" /\ proc[p].exc = NoExc
        /\ ~Present(proc[p].patch, "eventId")
        /\ proc[p].patch.vals["title"] = sPadA
        /\ proc[p].ret["title"] = sA
        /\ store[proc[p].id] = proc[p].ret
        /\ \E other \in AllIds \ {proc[p].id} : store[other] # NoItem

-----------------------------------------------------------------------------
(* C13: in every state reached by POST /events and PUT /events/{event_id}  *)
(* requests, every stored record has a capacity in 1..100000, a status     *)
(* among draft, published, active, cancelled, completed, and a title,      *)
(* description, location and organizer that are stripped, non-empty and at *)
(* most 200, 1000, 200 and 100 characters long.  A POST or PUT whose body  *)
(* carries a value outside these (capacity 0 or 100001, a whitespace-only  *)
(* title, ...) is answered with a validation error, 422, and leaves the    *)
(* table unchanged.                                                        *)

C13_MaxLength(k) ==
    CASE k = "title" -> 200
      [] k = "description" -> 1000
      [] k = "location" -> 200
      [] k = "organizer" -> 100

C13_Statuses == {"draft", "published", "active", "cancelled", "completed"}

\* the value v of field k is one a stored record may have
C13_Allowed(k, v) ==
    CASE k = "capacity" -> v >= 1 /\ v <= 100000
      [] k = "status" -> v \in C13_Statuses
      [] k \in StringFields ->
            /\ Strip(v) # <<>>
            /\ StrLen(Strip(v)) <= C13_MaxLength(k)
      [] OTHER -> TRUE

C13_Inv ==
    \A id \in AllIds :
        store[id] # NoItem =>
            /\ \A k \in StringFields \cup {"capacity", "status"} :
                  k \in DOMAIN store[id] /\ C13_Allowed(k, store[id][k])
            /\ \A k \in StringFields : Strip(store[id][k]) = store[id][k]

C13_Step ==
    \A p \in Procs :
        (/\ Finishes(p) /\ proc'[p].via = "http"
         /\ proc'[p].op \in {"create", "update"}
         /\ \E k \in (DOMAIN proc'[p].patch.vals) \cap UpdateFields :
               ~C13_Allowed(k, proc'[p].patch.vals[k]))
        => /\ proc'[p].exc = RequestValidationError
           /\ proc'[p].resp.code = HTTP_422_UNPROCESSABLE_ENTITY
           /\ proc'[p].resp.error = "Validation Error"
           /\ store' = store

C13_FieldInvariants == []C13_Inv /\ [][C13_Step]_vars

\* a PUT of capacity 100001 was refused for a record that holds the largest
\* capacity and the longest title
C13_Witness ==
    \E p \in Procs :
        /\ Done(p) /\ proc[p].op = "update" /\ proc[p].via = "http"
        /\ proc[p].patch = Body(One("capacity", 100001), {})
        /\ proc[p].exc = RequestValidationError
        /\ proc[p].id \in AllIds
        /\ store[proc[p].id] # NoItem
        /\ store[proc[p].id]["capacity"] = 100000
        /\ StrLen(store[proc[p].id]["title"]) = 200

-----------------------------------------------------------------------------
(* C14: an update whose patch names eventId or createdAt, next to a field  *)
(* it may set, is not refused: on an existing record and a table that      *)
(* answers it succeeds, stores the other fields of the patch and leaves    *)
(* the record's eventId and createdAt as they were.  No successful update  *)
(* changes a record's eventId or createdAt.                                *)

ImmutableKeys == {"eventId", "createdAt"}

C14_Step ==
    \A p \in Procs :
        /\ (/\ Finishes(p) /\ proc'[p].op = "update"
            /\ Keys(proc'[p].patch) \cap ImmutableKeys # {}
            /\ Keys(proc'[p].patch) \cap UpdateFields # {}
            /\ proc'[p].exc.cls # "RequestValidationError"
            /\ Served(proc'[p])
            /\ ~IsBlankId(proc'[p].id) /\ store[proc'[p].id] # NoItem)
           => LET id == proc'[p].id
                  d == proc'[p].patch
              IN  /\ proc'[p].exc = NoExc
                  /\ store'[id] # NoItem
                  /\ proc'[p].ret = store'[id]
                  /\ \A k \in (DOMAIN d.vals) \cap UpdateFields :
                        store'[id][k] = FieldValue(k, d.vals[k])
                  /\ \A k \in ImmutableKeys : store'[id][k] = store[id][k]
        /\ (proc[p].pc = "update_item" /\ Finishes(p) /\ proc'[p].exc = NoExc)
           => \A k \in ImmutableKeys :
                 store'[proc[p].id][k] = store[proc[p].id][k]

-----------------------------------------------------------------------------
(* C15: GET /health never raises and never changes the table.  It calls    *)
(* list_events(limit=1) and answers 200 whatever that call ends with: the  *)
(* body says healthy / connected when the call returned (with at most one  *)
(* record) and unhealthy / disconnected, with the error's text, when the   *)
(* call raised DatabaseException or anything else.                         *)

\* the texts of what list_events can raise
ListFailureTexts ==
    { "Failed to list events: ClientError", "Database connection error",
      "unexpected" }

C15_Step ==
    \A p \in Procs :
        /\ (proc'[p].op = "health" /\ proc'[p] # proc[p])
           => store' = store /\ proc'[p].limit = 1
        /\ (Finishes(p) /\ proc'[p].op = "health")
           => LET r == proc'[p].resp
              IN  /\ r.code = HTTP_200_OK
                  /\ proc'[p].exc = NoExc
                  /\ \/ /\ r.status = "healthy" /\ r.database = "connected"
                        /\ r.error = "none"
                        /\ Len(proc'[p].items) = Min(1, Count(store))
                     \/ /\ r.status = "unhealthy" /\ r.database = "disconnected"
                        /\ r.error \in ListFailureTexts
                        /\ proc'[p].items = <<>>

C15_HealthNeverRaises == [][C15_Step]_vars

\* a health check of a table that holds records met a failing backend and
\* was answered 200, unhealthy
C15_Witness ==
    \E p \in Procs :
        /\ Done(p) /\ proc[p].op = "health"
        /\ proc[p].resp.code = HTTP_200_OK
        /\ proc[p].resp.status = "unhealthy"
        /\ proc[p].resp.error = "Database connection error"
        /\ Count(store) > 0

-----------------------------------------------------------------------------
(* C16: an update with a non-empty patch that races with a delete of the   *)
(* same eventId never brings a record into being.  Its existence check and *)
(* its write are the one update_item request: answered while the record    *)
(* exists, the update succeeds and the record stays (a later delete        *)
(* removes it); answered after the delete, it fails with NotFound and the  *)
(* record stays absent.  In no state does a record exist whose eventId was *)
(* last deleted and not created since.                                     *)

C16_Inv ==
    \A id \in AllIds :
        /\ hist[id].kind = "delete" => store[id] = NoItem
        /\ store[id] # NoItem => hist[id].kind = "create"

C16_Step ==
    \A p \in Procs :
        (proc[p].pc = "update_item" /\ Finishes(p))
        => LET id == proc[p].id
           IN  /\ (store'[id] = NoItem) <=> (store[id] = NoItem)
               /\ hist'[id].kind = hist[id].kind
               /\ Served(proc'[p]) =>
                     IF store[id] # NoItem
                     THEN /\ proc'[p].exc = NoExc
                          /\ proc'[p].ret = store'[id]
                     ELSE /\ proc'[p].exc = NotFound
                          /\ store' = store

C16_UpdateNeverResurrects == []C16_Inv /\ [][C16_Step]_vars

\* a record was created and deleted, and an update that had read the clock
\* before the create lost against the delete: NotFound, the record absent
C16_Witness ==
    \E p, q, r \in Procs :
        /\ Done(p) /\ proc[p].op = "update" /\ proc[p].exc = NotFound
        /\ Done(q) /\ proc[q].op = "delete" /\ proc[q].exc = NoExc
        /\ Done(r) /\ proc[r].op = "create" /\ proc[r].exc = NoExc
        /\ Instant(proc[p].sets["updatedAt"]) < Instant(proc[r].ret["createdAt"])
        /\ hist[RaceId].kind = "delete"
        /\ store[RaceId] = NoItem

-----------------------------------------------------------------------------
(* C17: an update of an existing record whose patch is not empty but holds *)
(* only null values (such as {title: null}) is carried out and overwrites  *)
(* no field: title, description, date, location, capacity, organizer,      *)
(* status, eventId and createdAt keep their stored values and only         *)
(* updatedAt changes, to the time the update read, the current time.       *)

AllNull(d) == DOMAIN d.vals = {} /\ d.nulls # {}

C17_Step ==
    \A p \in Procs :
        (/\ proc[p].pc = "update_item" /\ Finishes(p)
         /\ AllNull(GatewayPatch(proc[p]))
         /\ Served(proc'[p])
         /\ store[proc[p].id] # NoItem)
        => LET id == proc[p].id
               old == store[id]
               new == store'[id]
           IN  /\ proc'[p].exc = NoExc
               /\ new # NoItem
               /\ DOMAIN new = DOMAIN old
               /\ \A k \in (DOMAIN old) \ {"updatedAt"} : new[k] = old[k]
               /\ UpdateFields \cup {"eventId", "createdAt"} \subseteq DOMAIN old
               /\ new["updatedAt"] = IsoZ(now)
               /\ proc'[p].ret = new
               /\ \A other \in AllIds \ {id} : store'[other] = store[other]

C17_AllNullPatch == [][C17_Step]_vars

\* an all-null PUT of a record succeeded at a later instant than the record's
\* last write: updatedAt moved, the title did not
C17_Witness ==
    \E p \in Procs :
        /\ Done(p) /\ proc[p].op = "update" /\ proc[p].via = "http"
        /\ proc[p].patch = NullPatch
        /\ proc[p].exc = NoExc
        /\ store[proc[p].id] = proc[p].ret
        /\ proc[p].ret["title"] = sA
        /\ proc[p].ret["createdAt"] = IsoZ(0)
        /\ proc[p].ret["updatedAt"] = IsoZ(1)

=============================================================================
